---- MODULE Spec2Model ----
(***************************************************************************)
(* Model of scripts/analyze_funnels_offers.py: the integrity diagnosis     *)
(* between funnels and offer mappings.  Strings are sequences of           *)
(* one-character strings; a CSV row is a function whose DOMAIN is the set  *)
(* of keys present in the dict; dict.get yields an option (None or a       *)
(* one-element tuple holding the value).                                   *)
(***************************************************************************)
EXTENDS Integers, Sequences, FiniteSets, TLC

VARIABLES pc, funnels_csv, offers_csv, funnels, offers, report, stdout

vars == <<pc, funnels_csv, offers_csv, funnels, offers, report, stdout>>

-----------------------------------------------------------------------------
(* Python values *)

None == <<>>

Some(s) == <<s>>

Range(s) == {s[i] : i \in DOMAIN s}

\* row.get(key)
get(row, key) == IF key \in DOMAIN row THEN Some(row[key]) ELSE None

\* row.get(key, default)
get_default(row, key, default) == IF key \in DOMAIN row THEN row[key] ELSE default

\* truth value of an optional string: None and "" are false
truthy(value) == value # None /\ value[1] # <<>>

\* value or default
or_else(value, default) == IF truthy(value) THEN value[1] ELSE default

\* Counter(iterable): each distinct value mapped to its number of occurrences
Counter(values) ==
  [v \in Range(values) |-> Cardinality({i \in DOMAIN values : values[i] = v})]

\* sum(s[1..n])
RECURSIVE SumUpTo(_, _)
SumUpTo(s, n) == IF n = 0 THEN 0 ELSE s[n] + SumUpTo(s, n - 1)

SumSeq(s) == SumUpTo(s, Len(s))

-----------------------------------------------------------------------------
(* normalize, line 17-18 *)

Whitespace == {" ", "\t", "\n"}

UpperLetters == <<"A","B","C","D","E","F","G","H","I","J","K","L","M",
                  "N","O","P","Q","R","S","T","U","V","W","X","Y","Z">>

LowerLetters == <<"a","b","c","d","e","f","g","h","i","j","k","l","m",
                  "n","o","p","q","r","s","t","u","v","w","x","y","z">>

LowerChar(c) ==
  IF \E i \in DOMAIN UpperLetters : UpperLetters[i] = c
  THEN LowerLetters[CHOOSE i \in DOMAIN UpperLetters : UpperLetters[i] = c]
  ELSE c

\* str.lower()
lower(s) == [i \in DOMAIN s |-> LowerChar(s[i])]

RECURSIVE lstrip(_)
lstrip(s) == IF s # <<>> /\ Head(s) \in Whitespace THEN lstrip(Tail(s)) ELSE s

RECURSIVE rstrip(_)
rstrip(s) ==
  IF s # <<>> /\ s[Len(s)] \in Whitespace THEN rstrip(SubSeq(s, 1, Len(s) - 1)) ELSE s

\* str.strip()
strip(s) == rstrip(lstrip(s))

\* re.sub(r"\s+", " ", s): every maximal run of whitespace becomes one space
RECURSIVE re_sub_ws(_)
re_sub_ws(s) ==
  IF s = <<>> THEN <<>>
  ELSE IF Head(s) \in Whitespace
       THEN <<" ">> \o re_sub_ws(lstrip(s))
       ELSE <<Head(s)>> \o re_sub_ws(Tail(s))

\* mutation: the value is not stripped
normalize_unstripped(value) == re_sub_ws(lower(or_else(value, <<>>)))

normalize(value) == re_sub_ws(lower(strip(or_else(value, <<>>))))

-----------------------------------------------------------------------------
(* main, lines 30-58: the analysis over the loaded rows *)

\* line 30; row["id"] raises KeyError when a funnel row has no "id" key
funnel_ids_raises == \E i \in DOMAIN funnels : "id" \notin DOMAIN funnels[i]

funnel_ids == {funnels[i]["id"] : i \in DOMAIN funnels}

\* mutation: the reference is compared after lower-casing both sides
is_invalid_funnel_row_folded(row) ==
  /\ truthy(get(row, "funnel_id"))
  /\ lower(row["funnel_id"]) \notin {lower(id) : id \in funnel_ids}

is_invalid_funnel_row(row) ==
  truthy(get(row, "funnel_id")) /\ row["funnel_id"] \notin funnel_ids

invalid_funnel_rows == SelectSeq(offers, is_invalid_funnel_row)

missing_funnel_rows == SelectSeq(offers, LAMBDA row : ~truthy(get(row, "funnel_id")))

missing_project_rows == SelectSeq(offers, LAMBDA row : ~truthy(get(row, "project_id")))

missing_product_rows == SelectSeq(offers, LAMBDA row : ~truthy(get(row, "nome_produto")))

missing_offer_rows == SelectSeq(offers, LAMBDA row : ~truthy(get(row, "nome_oferta")))

\* mutation: empty funnel_id values are counted as a key too
offers_by_funnel_all ==
  Counter([i \in DOMAIN offers |-> get_default(offers[i], "funnel_id", <<>>)])

offers_by_funnel ==
  LET with_funnel == SelectSeq(offers, LAMBDA row : truthy(get(row, "funnel_id")))
  IN  Counter([i \in DOMAIN with_funnel |-> with_funnel[i]["funnel_id"]])

funnels_without_offers ==
  SelectSeq(funnels, LAMBDA row : row["id"] \notin DOMAIN offers_by_funnel)

\* mutation: the key is built from the raw cells
group_key_raw(row) ==
  <<or_else(get(row, "project_id"), <<>>), or_else(get(row, "funnel_id"), <<>>),
    or_else(get(row, "nome_produto"), <<>>), or_else(get(row, "nome_oferta"), <<>>)>>

\* lines 43-48
group_key(row) ==
  <<normalize(get(row, "project_id")), normalize(get(row, "funnel_id")),
    normalize(get(row, "nome_produto")), normalize(get(row, "nome_oferta"))>>

\* line 49 on a dict kept in insertion order: a sequence of [key, rows]
group_append(groups, key, row) ==
  IF \E g \in DOMAIN groups : groups[g].key = key
  THEN LET g == CHOOSE h \in DOMAIN groups : groups[h].key = key
       IN  SubSeq(groups, 1, g - 1)
             \o <<[key |-> key, rows |-> Append(groups[g].rows, row)]>>
             \o SubSeq(groups, g + 1, Len(groups))
  ELSE Append(groups, [key |-> key, rows |-> <<row>>])

\* lines 41-49, over the first n offers
RECURSIVE all_groups(_)
all_groups(n) ==
  IF n = 0 THEN <<>>
  ELSE group_append(all_groups(n - 1), group_key(offers[n]), offers[n])

\* line 51
duplicate_groups == SelectSeq(all_groups(Len(offers)), LAMBDA g : Len(g.rows) > 1)

AutoImportado == <<"a","u","t","o","-","i","m","p","o","r","t","a","d","o">>

DeVendasExistentes ==
  <<" ","d","e"," ","v","e","n","d","a","s"," ","e","x","i","s","t","e","n","t","e","s">>

ImportadoDasVendas ==
  <<"i","m","p","o","r","t","a","d","o"," ","d","a","s"," ","v","e","n","d","a","s">>

\* lines 53-57
generic_offer_names ==
  {AutoImportado, AutoImportado \o DeVendasExistentes, ImportadoDasVendas}

\* mutation: the name is matched without folding its case
generic_offers_cased ==
  SelectSeq(offers, LAMBDA row :
    re_sub_ws(strip(or_else(get(row, "nome_oferta"), <<>>))) \in generic_offer_names)

\* line 58
generic_offers ==
  SelectSeq(offers, LAMBDA row : normalize(get(row, "nome_oferta")) \in generic_offer_names)

Vazio == <<"(","v","a","z","i","o",")">>

\* mutation: only an absent origem gets the placeholder
by_origem_absent_only ==
  Counter([i \in DOMAIN offers |-> get_default(offers[i], "origem", Vazio)])

\* line 102
by_origem == Counter([i \in DOMAIN offers |-> or_else(get(offers[i], "origem"), Vazio)])

SampleSize == 10

\* seq[:n]
Take(seq, n) == SubSeq(seq, 1, IF Len(seq) < n THEN Len(seq) ELSE n)

\* sorted(groups, key=len, reverse=True): stable, so groups of equal length
\* keep their relative order
RECURSIVE insert_desc(_, _)
insert_desc(sorted, g) ==
  IF sorted = <<>> THEN <<g>>
  ELSE IF Len(Head(sorted).rows) >= Len(g.rows)
       THEN <<Head(sorted)>> \o insert_desc(Tail(sorted), g)
       ELSE <<g>> \o sorted

RECURSIVE insert_desc_before(_, _)
insert_desc_before(sorted, g) ==
  IF sorted = <<>> THEN <<g>>
  ELSE IF Len(Head(sorted).rows) > Len(g.rows)
       THEN <<Head(sorted)>> \o insert_desc_before(Tail(sorted), g)
       ELSE <<g>> \o sorted

\* mutation: an ascending sort reversed, which reverses groups of equal length
RECURSIVE sorted_by_len_reversed(_)
sorted_by_len_reversed(groups) ==
  IF groups = <<>> THEN <<>>
  ELSE insert_desc_before(sorted_by_len_reversed(SubSeq(groups, 1, Len(groups) - 1)),
                          groups[Len(groups)])

RECURSIVE sorted_by_len_desc(_)
sorted_by_len_desc(groups) ==
  IF groups = <<>> THEN <<>>
  ELSE insert_desc(sorted_by_len_desc(SubSeq(groups, 1, Len(groups) - 1)),
                   groups[Len(groups)])

\* lines 110-116
group_sample(rows) ==
  [count |-> Len(rows),
   project_id |-> get_default(rows[1], "project_id", <<>>),
   funnel_id |-> get_default(rows[1], "funnel_id", <<>>),
   nome_produto |-> get_default(rows[1], "nome_produto", <<>>),
   nome_oferta |-> get_default(rows[1], "nome_oferta", <<>>)]

\* lines 109-118
top_duplicate_groups(groups) ==
  LET top == Take(sorted_by_len_desc(groups), SampleSize)
  IN  [i \in DOMAIN top |-> group_sample(top[i].rows)]

\* lines 96-99
duplicates(groups) ==
  [groups |-> Len(groups),
   extra_rows |-> SumSeq([g \in DOMAIN groups |-> Len(groups[g].rows) - 1])]

\* lines 106-108
funnels_without_offers_sample ==
  LET first == Take(funnels_without_offers, SampleSize)
  IN  [i \in DOMAIN first |->
         [id |-> first[i]["id"], name |-> get_default(first[i], "name", <<>>)]]

\* line 105
invalid_funnel_ids_sample ==
  Counter([i \in DOMAIN invalid_funnel_rows |-> invalid_funnel_rows[i]["funnel_id"]])

\* lines 86-121 (the remediation section is three literals, independent of the data)
report_with(groups) ==
  [totals |-> [funnels |-> Len(funnels), offers |-> Len(offers)],
   integrity |->
     [offers_missing_funnel_id |-> Len(missing_funnel_rows),
      offers_with_invalid_funnel_id |-> Len(invalid_funnel_rows),
      offers_missing_project_id |-> Len(missing_project_rows),
      offers_missing_nome_produto |-> Len(missing_product_rows),
      offers_missing_nome_oferta |-> Len(missing_offer_rows),
      funnels_without_offers |-> Len(funnels_without_offers)],
   duplicates |-> duplicates(groups),
   semantics |->
     [generic_offer_names |-> Len(generic_offers),
      by_origem |-> by_origem],
   samples |->
     [invalid_funnel_ids |-> invalid_funnel_ids_sample,
      funnels_without_offers |-> funnels_without_offers_sample,
      top_duplicate_groups |-> top_duplicate_groups(groups)],
   remediation |->
     {"check_invalid_funnel_sql", "backfill_by_legacy_name_sql",
      "reassign_invalid_funnel_sql_template"}]

build_report == report_with(duplicate_groups)

-----------------------------------------------------------------------------
(* the run: main, lines 26-123 *)

\* line 27, read_csv succeeds
ReadFunnels ==
  /\ pc = "read_funnels"
  /\ funnels_csv.status = "ok"
  /\ funnels' = funnels_csv.rows
  /\ pc' = "read_offers"
  /\ UNCHANGED <<funnels_csv, offers_csv, offers, report, stdout>>

\* line 27, path.open or the csv reader raises: the exception leaves main
ReadFunnelsFails ==
  /\ pc = "read_funnels"
  /\ funnels_csv.status # "ok"
  /\ pc' = "aborted"
  /\ UNCHANGED <<funnels_csv, offers_csv, funnels, offers, report, stdout>>

\* line 28, read_csv succeeds
ReadOffers ==
  /\ pc = "read_offers"
  /\ offers_csv.status = "ok"
  /\ offers' = offers_csv.rows
  /\ pc' = "analyze"
  /\ UNCHANGED <<funnels_csv, offers_csv, funnels, report, stdout>>

\* mutation: the failure is swallowed and the run goes on with no offers
ReadOffersFailsIgnored ==
  /\ pc = "read_offers"
  /\ offers_csv.status # "ok"
  /\ offers' = <<>>
  /\ pc' = "analyze"
  /\ UNCHANGED <<funnels_csv, offers_csv, funnels, report, stdout>>

\* line 28, read_csv raises
ReadOffersFails ==
  /\ pc = "read_offers"
  /\ offers_csv.status # "ok"
  /\ pc' = "aborted"
  /\ UNCHANGED <<funnels_csv, offers_csv, funnels, offers, report, stdout>>

\* lines 30-121
Analyze ==
  /\ pc = "analyze"
  /\ ~funnel_ids_raises
  /\ report' = build_report
  /\ pc' = "print"
  /\ UNCHANGED <<funnels_csv, offers_csv, funnels, offers, stdout>>

\* line 30: KeyError, uncaught
AnalyzeRaises ==
  /\ pc = "analyze"
  /\ funnel_ids_raises
  /\ pc' = "raised"
  /\ UNCHANGED <<funnels_csv, offers_csv, funnels, offers, report, stdout>>

\* line 123
PrintReport ==
  /\ pc = "print"
  /\ stdout' = Append(stdout, report)
  /\ pc' = "done"
  /\ UNCHANGED <<funnels_csv, offers_csv, funnels, offers, report>>

Next ==
  \/ ReadFunnels
  \/ ReadFunnelsFails
  \/ ReadOffers
  \/ ReadOffersFails
  \/ Analyze
  \/ AnalyzeRaises
  \/ PrintReport

-----------------------------------------------------------------------------
(* inputs *)

SeqsUpTo(S, n) == UNION {[1..k -> S] : k \in 0..n}

\* the dict of a row from a record of optional cells
Dict(cells) == [k \in {c \in DOMAIN cells : cells[c] # None} |-> cells[k][1]]

FunnelRows(Ids, Names) ==
  {Dict([id |-> i, name |-> n]) : i \in Ids, n \in Names}

OfferRows(Projects, FunnelRefs, Products, OfferNames, Origens) ==
  {Dict([project_id |-> p, funnel_id |-> f, nome_produto |-> np,
         nome_oferta |-> no, origem |-> o]) :
     p \in Projects, f \in FunnelRefs, np \in Products, no \in OfferNames, o \in Origens}

Readable(RowSeqs) == {[status |-> "ok", rows |-> rows] : rows \in RowSeqs}

Unreadable == {[status |-> s, rows |-> <<>>] : s \in {"not_found", "undecodable"}}

\* the offers file is never opened when the funnels file cannot be read, so its
\* content is varied only under a readable funnels file
InitWith(FunnelRowSeqs, OfferRowSeqs) ==
  /\ pc = "read_funnels"
  /\ \/ funnels_csv \in Readable(FunnelRowSeqs)
        /\ offers_csv \in Readable(OfferRowSeqs) \cup Unreadable
     \/ funnels_csv \in Unreadable
        /\ offers_csv \in Readable({<<>>}) \cup Unreadable
  /\ funnels = <<>>
  /\ offers = <<>>
  /\ report = <<>>
  /\ stdout = <<>>

MaxFunnels == 2

MaxOffers == 3

F1 == <<"F", "1">>

F2 == <<"F", "2">>

F9 == <<"F", "9">>

P1 == <<"P", "1">>

Sale == <<"S", "a", "l", "e">>

Promo == <<"P", "r", "o", "m", "o">>

Manual == <<"m", "a", "n", "u", "a", "l">>

\* cross-reference inputs: funnel ids and offer funnel_id references vary
XrefFunnels ==
  SeqsUpTo(FunnelRows({None, Some(<<>>), Some(F1), Some(F2)}, {Some(Sale)})
             \cup FunnelRows({Some(F1)}, {None}),
           MaxFunnels)

XrefOffers ==
  SeqsUpTo(OfferRows({Some(P1)},
                     {None, Some(<<>>), Some(F1), Some(lower(F1)), Some(F9)},
                     {Some(<<"X">>)}, {Some(Promo)}, {Some(Manual)})
             \cup {Dict([project_id |-> None])},
           MaxOffers)

Init == InitWith(XrefFunnels, XrefOffers)

Spec == Init /\ [][Next]_vars

-----------------------------------------------------------------------------
(* properties of the cross-reference counts *)

Reported == pc \in {"print", "done"}

Absent(row, key) == key \notin DOMAIN row

Empty(row, key) == key \in DOMAIN row /\ row[key] = <<>>

MissingIdx(key) == {i \in DOMAIN offers : Absent(offers[i], key) \/ Empty(offers[i], key)}

InvalidIdx ==
  {i \in DOMAIN offers :
     /\ ~Absent(offers[i], "funnel_id")
     /\ ~Empty(offers[i], "funnel_id")
     /\ \A j \in DOMAIN funnels : funnels[j]["id"] # offers[i]["funnel_id"]}

\* C1: an offer row is counted as missing its funnel id iff funnel_id is empty
\* or absent, and as invalid iff funnel_id is non-empty and equal (exact string
\* equality) to no funnel id; no row is counted twice and the two counts sum to
\* at most the number of offers.
C1_FunnelRefCounts ==
  Reported =>
    /\ report.integrity.offers_missing_funnel_id = Cardinality(MissingIdx("funnel_id"))
    /\ report.integrity.offers_with_invalid_funnel_id = Cardinality(InvalidIdx)
    /\ \A i \in DOMAIN offers :
         ~(is_invalid_funnel_row(offers[i]) /\ ~truthy(get(offers[i], "funnel_id")))
    /\ report.integrity.offers_missing_funnel_id
         + report.integrity.offers_with_invalid_funnel_id <= report.totals.offers

\* a run with a missing, a valid and an invalid reference, the invalid one
\* differing from a funnel id in case only
C1_Witness ==
  /\ pc = "done"
  /\ report.totals.offers = 3
  /\ report.integrity.offers_missing_funnel_id = 1
  /\ report.integrity.offers_with_invalid_funnel_id = 1
  /\ \E i \in DOMAIN offers, j \in DOMAIN funnels :
       /\ ~Absent(offers[i], "funnel_id")
       /\ offers[i]["funnel_id"] # funnels[j]["id"]
       /\ offers[i]["funnel_id"] = lower(funnels[j]["id"])

UsedFunnelIds ==
  {offers[i]["funnel_id"] : i \in DOMAIN offers \ MissingIdx("funnel_id")}

UnusedFunnelIdx == {j \in DOMAIN funnels : funnels[j]["id"] \notin UsedFunnelIds}

UsedIdsOfFunnels == {funnels[j]["id"] : j \in DOMAIN funnels \ UnusedFunnelIdx}

DistinctFunnelIds ==
  \A j, k \in DOMAIN funnels : funnels[j]["id"] = funnels[k]["id"] => j = k

UnusedFunnelsListed ==
  /\ report.integrity.funnels_without_offers = Cardinality(UnusedFunnelIdx)
  /\ Len(report.samples.funnels_without_offers)
       = (IF Cardinality(UnusedFunnelIdx) < SampleSize
          THEN Cardinality(UnusedFunnelIdx) ELSE SampleSize)
  /\ \A n \in DOMAIN report.samples.funnels_without_offers :
       \E j \in UnusedFunnelIdx :
         /\ report.samples.funnels_without_offers[n].id = funnels[j]["id"]
         /\ Cardinality({k \in UnusedFunnelIdx : k < j}) = n - 1

\* C2 as stated: the funnels without offers are the funnels whose id is not a
\* non-empty funnel_id of an offer, and their number plus the number of distinct
\* funnel ids with an offer is the number of funnels.
C2_Original ==
  Reported =>
    /\ UnusedFunnelsListed
    /\ report.integrity.funnels_without_offers + Cardinality(UsedIdsOfFunnels)
         = report.totals.funnels

\* C2 amended: the sum holds when the funnel ids are pairwise distinct.
C2_FunnelsWithoutOffers ==
  Reported =>
    /\ UnusedFunnelsListed
    /\ DistinctFunnelIds =>
         report.integrity.funnels_without_offers + Cardinality(UsedIdsOfFunnels)
           = report.totals.funnels

\* two funnels with distinct ids, one referenced by an offer and one not
C2_Witness ==
  /\ pc = "done"
  /\ DistinctFunnelIds
  /\ report.totals.funnels = 2
  /\ report.integrity.funnels_without_offers = 1
  /\ Cardinality(UsedIdsOfFunnels) = 1

\* C7 as stated: the analysis never raises whichever cells are empty or absent,
\* and every missing-field count counts absent keys like empty strings.
C7_Original ==
  /\ pc # "raised"
  /\ Reported =>
       /\ report.integrity.offers_missing_funnel_id = Cardinality(MissingIdx("funnel_id"))
       /\ report.integrity.offers_missing_project_id = Cardinality(MissingIdx("project_id"))
       /\ report.integrity.offers_missing_nome_produto
            = Cardinality(MissingIdx("nome_produto"))
       /\ report.integrity.offers_missing_nome_oferta = Cardinality(MissingIdx("nome_oferta"))

\* C8: nothing is written to standard output unless both sources were loaded;
\* a run whose load fails ends without a report.
C8_NoReportOnLoadFailure ==
  /\ stdout # <<>> =>
       /\ funnels_csv.status = "ok" /\ funnels = funnels_csv.rows
       /\ offers_csv.status = "ok" /\ offers = offers_csv.rows
  /\ pc = "aborted" => stdout = <<>>
  /\ (funnels_csv.status # "ok" \/ offers_csv.status # "ok") =>
       pc \in {"read_funnels", "read_offers", "aborted"}

\* the funnels were loaded, the offers could not be, and the run stopped
C8_Witness ==
  /\ pc = "aborted"
  /\ funnels_csv.status = "ok"
  /\ funnels # <<>>
  /\ offers_csv.status # "ok"
  /\ stdout = <<>>

-----------------------------------------------------------------------------
(* normalization *)

\* funnel files shared by the specifications that vary the offers only
PlainFunnels ==
  {<<>>, <<Dict([id |-> Some(F1), name |-> Some(Sale)])>>,
   <<Dict([id |-> None, name |-> Some(Sale)])>>}

MaxLen == 4

Alphabet == {"a", "A", " ", "\t"}

Strings == SeqsUpTo(Alphabet, MaxLen)

SwapCase(s) ==
  [i \in DOMAIN s |->
     IF \E n \in DOMAIN UpperLetters : UpperLetters[n] = s[i]
     THEN LowerLetters[CHOOSE n \in DOMAIN UpperLetters : UpperLetters[n] = s[i]]
     ELSE IF \E n \in DOMAIN LowerLetters : LowerLetters[n] = s[i]
          THEN UpperLetters[CHOOSE n \in DOMAIN LowerLetters : LowerLetters[n] = s[i]]
          ELSE s[i]]

RECURSIVE Widen(_)
Widen(s) ==
  IF s = <<>> THEN <<>>
  ELSE (IF Head(s) \in Whitespace THEN <<"\t", Head(s)>> ELSE <<Head(s)>>) \o Widen(Tail(s))

\* rewritings of a string: itself, its case swapped, padded with whitespace,
\* its whitespace runs lengthened, and (a different text) one letter added
Variants(s) ==
  {s, SwapCase(s), <<" ", "\t">> \o s \o <<"\n">>, Widen(s), s \o <<"a">>}

NormRow(name) ==
  Dict([project_id |-> Some(P1), funnel_id |-> Some(F1), nome_produto |-> name,
        nome_oferta |-> Some(Promo), origem |-> Some(Manual)])

\* two offers: any short string as nome_produto, then one of its rewritings;
\* or an offer without nome_produto, then one with a blank nome_produto
NormOffers ==
  {<<NormRow(Some(x[1])), NormRow(Some(x[2]))>> :
     x \in UNION {{<<t, v>> : v \in Variants(t)} : t \in Strings}}
    \cup {<<NormRow(None), NormRow(Some(t))>> : t \in {<<>>, <<" ">>, <<"a">>}}

InitNorm == InitWith(PlainFunnels, NormOffers)

SpecNorm == InitNorm /\ [][Next]_vars

\* the words of a string: its maximal runs of non-whitespace characters
RECURSIVE WordLen(_)
WordLen(s) == IF s = <<>> \/ Head(s) \in Whitespace THEN 0 ELSE 1 + WordLen(Tail(s))

RECURSIVE Words(_)
Words(s) ==
  IF s = <<>> THEN <<>>
  ELSE IF Head(s) \in Whitespace THEN Words(Tail(s))
       ELSE <<SubSeq(s, 1, WordLen(s))>> \o Words(SubSeq(s, WordLen(s) + 1, Len(s)))

\* the two optional strings differ at most in letter case, in the length of
\* whitespace runs and in leading or trailing whitespace (None reads as "")
SameText(x, y) ==
  Words([i \in DOMAIN or_else(x, <<>>) |-> LowerChar(or_else(x, <<>>)[i])])
    = Words([i \in DOMAIN or_else(y, <<>>) |-> LowerChar(or_else(y, <<>>)[i])])

KeyFields == {"project_id", "funnel_id", "nome_produto", "nome_oferta"}

\* C4: normalize is idempotent, maps a missing value to the empty string, and
\* gives equal results for values that differ only in case or whitespace.
C4_NormalizeIdempotent ==
  /\ normalize(None) = <<>>
  /\ \A i \in DOMAIN offers : \A f \in KeyFields :
       normalize(Some(normalize(get(offers[i], f)))) = normalize(get(offers[i], f))
  /\ \A i, j \in DOMAIN offers : \A f \in KeyFields :
       i < j /\ SameText(get(offers[i], f), get(offers[j], f)) =>
         normalize(get(offers[i], f)) = normalize(get(offers[j], f))

\* two rows whose product names differ in case and whitespace, neither in
\* normal form, were grouped as one duplicate
C4_Witness ==
  /\ pc = "done"
  /\ Len(offers) = 2
  /\ "nome_produto" \in DOMAIN offers[1]
  /\ offers[1]["nome_produto"] # offers[2]["nome_produto"]
  /\ normalize(get(offers[1], "nome_produto")) # offers[1]["nome_produto"]
  /\ normalize(get(offers[2], "nome_produto")) # offers[2]["nome_produto"]
  /\ normalize(get(offers[1], "nome_produto")) # <<>>
  /\ SameText(get(offers[1], "nome_produto"), get(offers[2], "nome_produto"))
  /\ report.duplicates.groups = 1

-----------------------------------------------------------------------------
(* duplicate groups *)

\* offers that fall in one group though their cells differ in case and
\* whitespace, offers without or with a blank funnel_id, and an offer whose
\* name has a space more inside
DupOfferRows ==
  OfferRows({Some(P1), Some(<<" ", "p", "1">>)}, {Some(F1)}, {Some(<<"X">>)},
            {Some(Promo), Some(<<"P", "R", "O", "M", "O", "\t">>)}, {Some(Manual)})
    \cup OfferRows({Some(P1)}, {Some(<<"f", "1">>)}, {Some(<<" ", "x", " ">>)},
                   {Some(Promo)}, {Some(Manual)})
    \cup OfferRows({Some(P1)}, {None, Some(<<>>)}, {Some(<<"X">>)}, {Some(Promo)},
                   {Some(Manual)})
    \cup OfferRows({Some(P1)}, {Some(F1)}, {Some(<<"X">>)},
                   {Some(<<"p", "r", "o", " ", "m", "o">>)}, {Some(Manual)})

InitDup == InitWith(PlainFunnels, SeqsUpTo(DupOfferRows, MaxOffers))

SpecDup == InitDup /\ [][Next]_vars

SameKey(r1, r2) == \A f \in KeyFields : SameText(get(r1, f), get(r2, f))

Class(i) == {j \in DOMAIN offers : SameKey(offers[i], offers[j])}

DupClasses == {c \in {Class(i) : i \in DOMAIN offers} : Cardinality(c) > 1}

RECURSIVE SumExtra(_)
SumExtra(classes) ==
  IF classes = {} THEN 0
  ELSE LET c == CHOOSE d \in classes : TRUE
       IN  (Cardinality(c) - 1) + SumExtra(classes \ {c})

\* C3: duplicates.groups is the number of normalized 4-tuples carried by more
\* than one offer and duplicates.extra_rows the sum of (size - 1) over them; both
\* are 0 when no tuple repeats, and two offers differing only in case or
\* whitespace are one group of size 2 with one extra row.
C3_DuplicateCounts ==
  Reported =>
    /\ report.duplicates.groups = Cardinality(DupClasses)
    /\ report.duplicates.extra_rows = SumExtra(DupClasses)
    /\ (\A i, j \in DOMAIN offers : SameKey(offers[i], offers[j]) => i = j) =>
         report.duplicates.groups = 0 /\ report.duplicates.extra_rows = 0
    /\ (Len(offers) = 2 /\ SameKey(offers[1], offers[2])) =>
         report.duplicates.groups = 1 /\ report.duplicates.extra_rows = 1

\* two offers whose cells differ in case and whitespace only were reported as
\* one group with one extra row
C3_Witness ==
  /\ pc = "done"
  /\ Len(offers) = 2
  /\ offers[1] # offers[2]
  /\ SameKey(offers[1], offers[2])
  /\ report.duplicates.groups = 1
  /\ report.duplicates.extra_rows = 1

-----------------------------------------------------------------------------
(* generic offer names and origins *)

AutoImportadoTitled ==
  <<"A","u","t","o","-","I","m","p","o","r","t","a","d","o">>

\* placeholder names in other spellings, names that only start like one, an
\* ordinary name, an empty and an absent name
SemOfferNames ==
  {None, Some(<<>>), Some(Promo), Some(AutoImportadoTitled),
   Some(<<" ">> \o AutoImportado \o <<" ", "\t">> \o Tail(DeVendasExistentes)),
   Some(SwapCase(ImportadoDasVendas)),
   Some(AutoImportado \o <<" ", "d", "e">>)}

SemOrigens == {None, Some(<<>>), Some(Manual), Some(Vazio)}

SemOfferRows ==
  OfferRows({Some(P1)}, {Some(F1)}, {Some(<<"X">>)}, SemOfferNames, {Some(Manual)})
    \cup OfferRows({Some(P1)}, {Some(F1)}, {Some(<<"X">>)}, {Some(Promo)}, SemOrigens)

InitSem == InitWith(PlainFunnels, SeqsUpTo(SemOfferRows, MaxOffers))

SpecSem == InitSem /\ [][Next]_vars

PlaceholderWords ==
  {<<AutoImportado>>,
   <<AutoImportado, <<"d","e">>, <<"v","e","n","d","a","s">>,
     <<"e","x","i","s","t","e","n","t","e","s">>>>,
   <<<<"i","m","p","o","r","t","a","d","o">>, <<"d","a","s">>, <<"v","e","n","d","a","s">>>>}

GenericIdx ==
  {i \in DOMAIN offers :
     /\ ~Absent(offers[i], "nome_oferta")
     /\ Words([n \in DOMAIN offers[i]["nome_oferta"] |->
                 LowerChar(offers[i]["nome_oferta"][n])]) \in PlaceholderWords}

\* C9: semantics.generic_offer_names is the number of offers whose nome_oferta
\* is, up to case and whitespace, one of the three placeholder names; offers with
\* an empty or absent name are not counted and "Auto-Importado" is.
C9_GenericOfferNames ==
  Reported =>
    /\ report.semantics.generic_offer_names = Cardinality(GenericIdx)
    /\ MissingIdx("nome_oferta") \cap GenericIdx = {}
    /\ \A i \in DOMAIN offers :
         (~Absent(offers[i], "nome_oferta")
            /\ offers[i]["nome_oferta"] = AutoImportadoTitled) => i \in GenericIdx
    /\ (\A i \in DOMAIN offers : i \in MissingIdx("nome_oferta")) =>
         report.semantics.generic_offer_names = 0

\* an "Auto-Importado" offer, an offer with another name and one with no name:
\* one generic name reported
C9_Witness ==
  /\ pc = "done"
  /\ Len(offers) = 3
  /\ report.semantics.generic_offer_names = 1
  /\ \E i \in DOMAIN offers :
       ~Absent(offers[i], "nome_oferta") /\ offers[i]["nome_oferta"] = AutoImportadoTitled
  /\ MissingIdx("nome_oferta") # {}

OrigemLabel(i) ==
  IF Absent(offers[i], "origem") \/ Empty(offers[i], "origem")
  THEN Vazio ELSE offers[i]["origem"]

RECURSIVE SumCounts(_, _)
SumCounts(counter, keys) ==
  IF keys = {} THEN 0
  ELSE LET k == CHOOSE x \in keys : TRUE
       IN  counter[k] + SumCounts(counter, keys \ {k})

\* C10: semantics.by_origem maps each origem, "(vazio)" standing for an empty
\* or absent one, to the number of offers carrying it; the counts sum to
\* totals.offers, the empty string is no key, and no offers give no keys.
C10_ByOrigem ==
  Reported =>
    LET counts == report.semantics.by_origem
    IN  /\ DOMAIN counts = {OrigemLabel(i) : i \in DOMAIN offers}
        /\ \A label \in DOMAIN counts :
             counts[label] = Cardinality({i \in DOMAIN offers : OrigemLabel(i) = label})
        /\ SumCounts(counts, DOMAIN counts) = report.totals.offers
        /\ <<>> \notin DOMAIN counts
        /\ offers = <<>> => DOMAIN counts = {}

\* offers with an absent, an empty and a filled origem: two labels reported
C10_Witness ==
  /\ pc = "done"
  /\ Len(offers) = 3
  /\ \E i, j, k \in DOMAIN offers :
       /\ Absent(offers[i], "origem")
       /\ Empty(offers[j], "origem")
       /\ ~Absent(offers[k], "origem") /\ offers[k]["origem"] = Manual
  /\ report.semantics.by_origem[Vazio] = 2
  /\ report.semantics.by_origem[Manual] = 1

-----------------------------------------------------------------------------
(* samples *)

MaxSampleKeys == 11

Digits == <<"0", "1", "2", "3", "4", "5", "6", "7", "8", "9">>

\* the funnel_id of key k in one of three spellings
SampleId(k, spelling) ==
  LET number == <<Digits[(k \div 10) + 1], Digits[(k % 10) + 1]>>
  IN  CASE spelling = 0 -> <<"g">> \o number
        [] spelling = 1 -> <<"G">> \o number
        [] OTHER -> <<" ", "g">> \o number

SampleRow(k, spelling) ==
  Dict([project_id |-> Some(P1), funnel_id |-> Some(SampleId(k, spelling)),
        nome_produto |-> Some(<<"X">>), nome_oferta |-> Some(Promo),
        origem |-> Some(Manual)])

MaxTriples == 2

\* one row for each key from k to n that occurs at least round times
RECURSIVE Round(_, _, _, _)
Round(round, k, n, triples) ==
  IF k > n THEN <<>>
  ELSE (IF round <= 2 \/ k \in triples THEN <<SampleRow(k, (k + round) % 3)>> ELSE <<>>)
         \o Round(round, k + 1, n, triples)

\* n keys first met in increasing order, each on two offers spelled differently
\* and a few of them on a third; possibly after one offer alone in its group
SampleOffers ==
  {lead \o Round(1, 1, x[1], x[2]) \o Round(2, 1, x[1], x[2]) \o Round(3, 1, x[1], x[2]) :
     lead \in {<<>>, <<SampleRow(0, 0)>>},
     x \in UNION {{<<n, t>> : t \in {u \in SUBSET (1..n) : Cardinality(u) <= MaxTriples}} :
                    n \in 0..MaxSampleKeys}}

SampleFunnels ==
  {<<>>, <<Dict([id |-> Some(SampleId(1, 0)), name |-> Some(Sale)])>>,
   <<Dict([id |-> None, name |-> Some(Sale)])>>}

InitSamples == InitWith(SampleFunnels, SampleOffers)

SpecSamples == InitSamples /\ [][Next]_vars

\* C5 as stated: samples.invalid_funnel_ids holds at most 10 distinct invalid
\* funnel_id values, each with the number of offers carrying it.
C5_Original ==
  Reported =>
    LET ids == report.samples.invalid_funnel_ids
    IN  /\ Cardinality(DOMAIN ids) <= SampleSize
        /\ \A id \in DOMAIN ids :
             /\ \E i \in InvalidIdx : offers[i]["funnel_id"] = id
             /\ ids[id] = Cardinality({i \in InvalidIdx : offers[i]["funnel_id"] = id})

\* the words of the four key cells of a row
WordKey(row) ==
  <<Words(lower(or_else(get(row, "project_id"), <<>>))),
    Words(lower(or_else(get(row, "funnel_id"), <<>>))),
    Words(lower(or_else(get(row, "nome_produto"), <<>>))),
    Words(lower(or_else(get(row, "nome_oferta"), <<>>)))>>

RECURSIVE WordKeys(_)
WordKeys(n) == IF n = 0 THEN <<>> ELSE Append(WordKeys(n - 1), WordKey(offers[n]))

\* size[i] is the number of offers in the group of offer i
GroupSizes(keys) ==
  [i \in DOMAIN keys |-> Cardinality({j \in DOMAIN keys : keys[j] = keys[i]})]

\* the first offer of each group of more than one offer
Leaders(keys) ==
  {i \in DOMAIN keys :
     /\ \E j \in DOMAIN keys : j # i /\ keys[j] = keys[i]
     /\ \A j \in 1..(i - 1) : keys[j] # keys[i]}

Raw(i, f) == IF Absent(offers[i], f) THEN <<>> ELSE offers[i][f]

\* the leaders whose group an entry of the sample can stand for
EntryLeaders(entry, leaders, sizes) ==
  {i \in leaders :
     /\ entry.count = sizes[i]
     /\ entry.project_id = Raw(i, "project_id")
     /\ entry.funnel_id = Raw(i, "funnel_id")
     /\ entry.nome_produto = Raw(i, "nome_produto")
     /\ entry.nome_oferta = Raw(i, "nome_oferta")}

\* C6: samples.top_duplicate_groups has min(10, duplicates.groups) entries in
\* non-increasing order of count, groups of equal count in the order their keys
\* were first met; no omitted group is larger than an included one; an entry
\* carries the raw cells of the first row of its group.
C6_TopDuplicateGroups ==
  Reported =>
    \A keys \in {WordKeys(Len(offers))} :
    \A leaders \in {Leaders(keys)} :
    \A sizes \in {GroupSizes(keys)} :
      LET top == report.samples.top_duplicate_groups
      IN  /\ report.duplicates.groups = Cardinality(leaders)
          /\ Len(top) = (IF report.duplicates.groups < SampleSize
                         THEN report.duplicates.groups ELSE SampleSize)
          /\ \A n \in DOMAIN top : Cardinality(EntryLeaders(top[n], leaders, sizes)) = 1
          /\ \A n \in DOMAIN top : n > 1 =>
               \A a \in EntryLeaders(top[n - 1], leaders, sizes) :
               \A b \in EntryLeaders(top[n], leaders, sizes) :
                 \/ sizes[a] > sizes[b]
                 \/ sizes[a] = sizes[b] /\ a < b
          /\ \A i \in leaders :
               (\A n \in DOMAIN top : i \notin EntryLeaders(top[n], leaders, sizes)) =>
                 \A n \in DOMAIN top : top[n].count >= sizes[i]

\* more than ten duplicate groups: the sample holds ten, two groups of three
\* come first, then the group of two met first, listed with the cells of its
\* first row as they were spelled; a group is left out
C6_Witness ==
  /\ pc = "done"
  /\ report.duplicates.groups > SampleSize
  /\ Len(report.samples.top_duplicate_groups) = SampleSize
  /\ report.samples.top_duplicate_groups[1].count = 3
  /\ report.samples.top_duplicate_groups[2].count = 3
  /\ report.samples.top_duplicate_groups[3].count = 2
  /\ report.samples.top_duplicate_groups[3].funnel_id = offers[1]["funnel_id"]
  /\ offers[1]["funnel_id"] # normalize(get(offers[1], "funnel_id"))
  /\ report.samples.top_duplicate_groups[1].funnel_id # offers[1]["funnel_id"]

====
